---- MODULE Spec2Model ----
(***************************************************************************)
(* Pomodoro timer (src/script.js): the App component's session state, the  *)
(* handlers that change it and the effects React runs after each commit.   *)
(* A step of the model is one event (a click, a timer callback) together   *)
(* with the batched state update, the render and the effects it triggers.  *)
(***************************************************************************)
EXTENDS Integers, FiniteSets, Sequences, TLC

\* settings, mode, isRunning, roundsCompleted, secondsLeft: the useState
\* hooks of App; timerTasks: the intervals set by useInterval and not yet
\* cleared; lastOp: history variable, the operation of the last step;
\* stored: the item kept under STORAGE_KEY in localStorage; storeOK: whether
\* localStorage accepts getItem and setItem (they throw when it does not);
\* form: the SettingsModal, <<>> while openSettings is false and <<local>>
\* while it is open; pending: <<>> when the passive effects of the last
\* commit have run, else <<st>> with st the state of the last render whose
\* effects did run
VARIABLES settings, mode, isRunning, roundsCompleted, secondsLeft,
          timerTasks, lastOp, stored, storeOK, form, pending

vars == <<settings, mode, isRunning, roundsCompleted, secondsLeft,
          timerTasks, lastOp, stored, storeOK, form, pending>>

(* ------------------------------ bounds -------------------------------- *)

\* largest value typed into a NumberInput of the settings form
MaxInput == 2
\* cap on roundsCompleted (the counter is unbounded in the code)
MaxRounds == 2
\* Ticks of one countdown followed while the settings form is explored
MaxFormTicks == 2

(* ----------------------------- constants ------------------------------ *)

SecondsPerMinute == 60

Mode == [Work |-> "WORK", Short |-> "SHORT", Long |-> "LONG"]

Modes == {Mode.Work, Mode.Short, Mode.Long}

DEFAULT_SETTINGS ==
  [workMinutes |-> 25, shortBreakMinutes |-> 5, longBreakMinutes |-> 15,
   roundsUntilLongBreak |-> 4, autoStartNext |-> FALSE, sound |-> TRUE]

NumericKeys ==
  {"workMinutes", "shortBreakMinutes", "longBreakMinutes", "roundsUntilLongBreak"}

BooleanKeys == {"autoStartNext", "sound"}

SettingsKeys == NumericKeys \cup BooleanKeys

\* the keys edited in the form; the Sound alert checkbox only gates beep(),
\* which touches no component state, and is left as stored
EditedKeys == NumericKeys \cup {"autoStartNext"}

(* --------------------------- settings form ---------------------------- *)

\* what NumberInput hands to onChange: Number(e.target.value || 0)
NumberInputValues == 0..MaxInput

\* Math.max(1, v) of the four numeric field handlers
ClampField(v) == IF v < 1 THEN 1 ELSE v

\* setField(key, val): a copy of the form state with one field replaced
setField(s, key, val) == [s EXCEPT ![key] = val]

\* the settings records the form can produce: every numeric field clamped
\* by its handler, the auto-start checkbox either way
FormSettings ==
  [workMinutes          : {ClampField(v) : v \in NumberInputValues},
   shortBreakMinutes    : {ClampField(v) : v \in NumberInputValues},
   longBreakMinutes     : {ClampField(v) : v \in NumberInputValues},
   roundsUntilLongBreak : {ClampField(v) : v \in NumberInputValues},
   autoStartNext        : BOOLEAN,
   sound                : {DEFAULT_SETTINGS.sound}]

\* the values the onChange handler of a field can set it to
FieldValues(key) ==
  IF key \in NumericKeys THEN {ClampField(v) : v \in NumberInputValues}
  ELSE BOOLEAN

\* the form state handed to onSave: the form opens on the current settings
\* (useState(settings)) and one field is edited with setField before Save
FormStates(s) ==
  UNION {{setField(s, key, val) : val \in FieldValues(key)} : key \in EditedKeys}

(* ----------------------------- persistence ---------------------------- *)

NoFields == [k \in {} |-> 0]

\* what localStorage holds under STORAGE_KEY: no item, a text JSON.parse
\* rejects, or the text of a record
NoItem == [kind |-> "absent", fields |-> NoFields]

Unparsable == [kind |-> "unparsable", fields |-> NoFields]

\* JSON.stringify(settings): the numbers and booleans of the record are
\* written as JSON literals, which JSON.parse reads back unchanged
stringify(s) == [kind |-> "record", fields |-> s]

\* a getItem that throws
Unavailable == [kind |-> "unavailable", fields |-> NoFields]

\* localStorage.getItem(STORAGE_KEY)
getItem == IF storeOK THEN stored ELSE Unavailable

\* stored blobs read at startup: full records written by an earlier session
StoredBlobs == {stringify(s) : s \in FormSettings}

\* { ...DEFAULT_SETTINGS, ...parsed }: the defaults overlaid with every
\* field of the parsed record
merge(parsed) ==
  [k \in SettingsKeys \cup DOMAIN parsed |->
     IF k \in DOMAIN parsed THEN parsed[k] ELSE DEFAULT_SETTINGS[k]]

\* the try block of loadSettings: the value it returns, or threw when
\* getItem or JSON.parse throws
tryLoad(blob) ==
  IF blob.kind = "unavailable" THEN [threw |-> TRUE, value |-> NoFields]
  ELSE IF blob.kind = "absent"
  THEN [threw |-> FALSE, value |-> DEFAULT_SETTINGS]
  ELSE IF blob.kind = "unparsable" THEN [threw |-> TRUE, value |-> NoFields]
  ELSE [threw |-> FALSE, value |-> merge(blob.fields)]

\* faulty variant: the defaults spread over the parsed record
loadSettingsDefaultsLast(blob) == DEFAULT_SETTINGS

\* loadSettings: the catch turns every throw into DEFAULT_SETTINGS
loadSettings(blob) ==
  IF tryLoad(blob).threw THEN DEFAULT_SETTINGS ELSE tryLoad(blob).value

\* faulty variant: a saveSettings that never reaches the store
saveSettingsNowhere(s) == stored

\* saveSettings: setItem(STORAGE_KEY, JSON.stringify(settings)), a throw of
\* setItem swallowed by the empty catch
saveSettings(s) == IF storeOK THEN stringify(s) ELSE stored

(* --------------------------- derived values --------------------------- *)

\* the useMemo of App: full duration of a mode under given settings
initialSeconds(m, s) ==
  IF m = Mode.Work THEN s.workMinutes * SecondsPerMinute
  ELSE IF m = Mode.Short THEN s.shortBreakMinutes * SecondsPerMinute
  ELSE s.longBreakMinutes * SecondsPerMinute

\* the component state as one record
State ==
  [settings |-> settings, mode |-> mode, isRunning |-> isRunning,
   roundsCompleted |-> roundsCompleted, secondsLeft |-> secondsLeft,
   timerTasks |-> timerTasks]

full(st) == initialSeconds(st.mode, st.settings)

\* total = initialSeconds || 1, the divisor of progress
total(st) == IF full(st) = 0 THEN 1 ELSE full(st)

(* ------------------------------ effects ------------------------------- *)

\* useEffect(() => setSecondsLeft(initialSeconds), [initialSeconds]):
\* runs only when the number initialSeconds differs from the last render's
resetEffect(old, new) ==
  IF full(new) # full(old) THEN full(new) ELSE new.secondsLeft

\* faulty variant: the effect sets a new interval without the cleanup of
\* the old one
useIntervalNoCleanup(old, new) ==
  IF new.isRunning = old.isRunning THEN old.timerTasks
  ELSE old.timerTasks + 1

\* useInterval(callback, isRunning ? 1000 : null): when the delay changes
\* the cleanup clears the old interval and the effect sets a new one
useInterval(old, new) ==
  IF new.isRunning = old.isRunning THEN old.timerTasks
  ELSE (old.timerTasks - (IF old.isRunning THEN 1 ELSE 0))
       + (IF new.isRunning THEN 1 ELSE 0)

\* the state once the effects of the commit old -> new have run
settle(old, new) ==
  [new EXCEPT !.secondsLeft = resetEffect(old, new),
              !.timerTasks = useInterval(old, new)]

(* ------------------------------ handlers ------------------------------ *)

\* faulty variant: setIsRunning(true) instead of the flip
handleStartOnly(st) == [st EXCEPT !.isRunning = TRUE]

handleStartPause(st) == [st EXCEPT !.isRunning = ~st.isRunning]

\* faulty variant: Reset that pauses without restoring the countdown
handleResetKeepsTime(st) == [st EXCEPT !.isRunning = FALSE]

handleReset(st) == [st EXCEPT !.isRunning = FALSE, !.secondsLeft = full(st)]

switchMode(st, next) == [st EXCEPT !.isRunning = FALSE, !.mode = next]

\* faulty variant: Clear Rounds that also restarts the countdown
clearRoundsAndTime(st) ==
  [st EXCEPT !.roundsCompleted = 0, !.secondsLeft = full(st)]

clearRounds(st) == [st EXCEPT !.roundsCompleted = 0]

\* faulty variant: Save that also pauses the timer
onSavePauses(st, local) == [st EXCEPT !.settings = local, !.isRunning = FALSE]

\* faulty variant: Save that also restarts the countdown of the current mode
onSaveResets(st, local) ==
  [st EXCEPT !.settings = local,
             !.secondsLeft = initialSeconds(st.mode, local)]

\* onSave of the settings form: setSettings(local)
onSave(st, local) == [st EXCEPT !.settings = local]

\* faulty variant: closing the form hands its state to the controller
onCloseSaves(st, local) == [st EXCEPT !.settings = local]

\* onClose of the settings form (Cancel, backdrop): setOpenSettings(false)
\* only, the form state is dropped with the unmounted SettingsModal
onClose(st, local) == st

\* faulty variant: the round is counted when a break completes as well
onCompleteCycleCountsBreaks(st) ==
  LET nextRounds == st.roundsCompleted + 1
      shouldLong == nextRounds % st.settings.roundsUntilLongBreak = 0
      nextMode   == IF shouldLong THEN Mode.Long ELSE Mode.Short
  IN [st EXCEPT !.isRunning = st.settings.autoStartNext,
                !.roundsCompleted = nextRounds,
                !.mode = IF st.mode = Mode.Work THEN nextMode ELSE Mode.Work]

\* faulty variant: shouldLong computed from the count before the increment
onCompleteCycleStaleRounds(st) ==
  IF st.mode = Mode.Work
  THEN LET nextRounds == st.roundsCompleted + 1
           shouldLong ==
             st.roundsCompleted % st.settings.roundsUntilLongBreak = 0
           nextMode   == IF shouldLong THEN Mode.Long ELSE Mode.Short
       IN [st EXCEPT !.isRunning = st.settings.autoStartNext,
                     !.roundsCompleted = nextRounds,
                     !.mode = nextMode]
  ELSE [st EXCEPT !.isRunning = st.settings.autoStartNext,
                  !.mode = Mode.Work]

\* faulty variant: the completion never restarts the timer
onCompleteCycleNoAutoStart(st) ==
  IF st.mode = Mode.Work
  THEN LET nextRounds == st.roundsCompleted + 1
           shouldLong == nextRounds % st.settings.roundsUntilLongBreak = 0
           nextMode   == IF shouldLong THEN Mode.Long ELSE Mode.Short
       IN [st EXCEPT !.isRunning = FALSE,
                     !.roundsCompleted = nextRounds,
                     !.mode = nextMode]
  ELSE [st EXCEPT !.isRunning = FALSE, !.mode = Mode.Work]

\* setIsRunning(false), then the next mode, then setIsRunning(true) when
\* autoStartNext: the updates are batched into one render
onCompleteCycle(st) ==
  IF st.mode = Mode.Work
  THEN LET nextRounds == st.roundsCompleted + 1
           shouldLong == nextRounds % st.settings.roundsUntilLongBreak = 0
           nextMode   == IF shouldLong THEN Mode.Long ELSE Mode.Short
       IN [st EXCEPT !.isRunning = st.settings.autoStartNext,
                     !.roundsCompleted = nextRounds,
                     !.mode = nextMode]
  ELSE [st EXCEPT !.isRunning = st.settings.autoStartNext,
                  !.mode = Mode.Work]

\* faulty variant: the last second is counted without onCompleteCycle()
tickWithoutCompletion(st) ==
  IF st.secondsLeft <= 1
  THEN [st EXCEPT !.secondsLeft = 0]
  ELSE [st EXCEPT !.secondsLeft = st.secondsLeft - 1]

\* faulty variant: the interval completes one Tick late (s < 1 for s <= 1)
tickLate(st) ==
  IF st.secondsLeft < 1
  THEN [onCompleteCycle(st) EXCEPT !.secondsLeft = 0]
  ELSE [st EXCEPT !.secondsLeft = st.secondsLeft - 1]

\* the interval callback: setSecondsLeft(s => ...)
tick(st) ==
  IF st.secondsLeft <= 1
  THEN [onCompleteCycle(st) EXCEPT !.secondsLeft = 0]
  ELSE [st EXCEPT !.secondsLeft = st.secondsLeft - 1]

(* ------------------------------ actions ------------------------------- *)

\* the component state new becomes the current one, by operation op
CommitSession(new, op) ==
  /\ settings' = new.settings
  /\ mode' = new.mode
  /\ isRunning' = new.isRunning
  /\ roundsCompleted' = new.roundsCompleted
  /\ secondsLeft' = new.secondsLeft
  /\ timerTasks' = new.timerTasks
  /\ lastOp' = op

\* commit the settled state new, reached by operation op; the settings
\* object is the same, so the save effect does not run
Commit(new, op) ==
  /\ CommitSession(new, op)
  /\ UNCHANGED <<stored, storeOK, form, pending>>

\* the state once App has been constructed over the item blob of a store
\* that accepts access or not: the useState initialisers, then the effects
\* of the first commit (the save effect writes the loaded settings)
Startup(blob, ok) ==
  /\ storeOK = ok
  /\ settings = loadSettings(IF ok THEN blob ELSE Unavailable)
  /\ mode = Mode.Work
  /\ isRunning = FALSE
  /\ roundsCompleted = 0
  /\ secondsLeft = initialSeconds(Mode.Work, settings)
  /\ timerTasks = 0
  /\ stored = (IF ok THEN stringify(settings) ELSE blob)
  /\ form = <<>>
  /\ pending = <<>>
  /\ lastOp = "init"

Init == \E blob \in StoredBlobs : Startup(blob, TRUE)

StartPause ==
  \E new \in {settle(State, handleStartPause(State))} :
     Commit(new, "toggle")

Reset ==
  \E new \in {settle(State, handleReset(State))} :
     Commit(new, "reset")

SwitchMode ==
  \E next \in Modes :
    \E new \in {settle(State, switchMode(State, next))} :
       Commit(new, "switch")

ClearRounds ==
  \E new \in {settle(State, clearRounds(State))} :
     Commit(new, "clear")

\* setSettings(local) hands over the new object made by setField, so the
\* save effect runs
Save ==
  \E local \in FormStates(settings) :
    \E new \in {settle(State, onSave(State, local))} :
       /\ CommitSession(new, "save")
       /\ stored' = saveSettings(new.settings)
       /\ UNCHANGED <<storeOK, form, pending>>

Tick ==
  /\ timerTasks > 0
  /\ ~(secondsLeft <= 1 /\ mode = Mode.Work /\ roundsCompleted >= MaxRounds)
  /\ \E new \in {settle(State, tick(State))} :
        Commit(new, IF secondsLeft <= 1 THEN "complete" ELSE "tick")

Next == StartPause \/ Reset \/ SwitchMode \/ ClearRounds \/ Save \/ Tick

Spec == Init /\ [][Next]_vars

(* ------------------- startup over any stored item --------------------- *)

\* the numbers a stored record can hold in a numeric field: loadSettings
\* takes the field as it is, so also the 0 and -1 the form never writes
BlobNumbers == -1..MaxInput

BlobRecords ==
  [workMinutes          : BlobNumbers,
   shortBreakMinutes    : BlobNumbers,
   longBreakMinutes     : BlobNumbers,
   roundsUntilLongBreak : BlobNumbers,
   autoStartNext        : BOOLEAN,
   sound                : {DEFAULT_SETTINGS.sound}]

Restrict(r, D) == [k \in D |-> r[k]]

\* the items loadSettings can find: none, an unparsable text, or a record
\* holding any subset of the six fields
AnyBlobs ==
  {NoItem, Unparsable}
    \cup {stringify(Restrict(r, D)) : r \in BlobRecords, D \in SUBSET SettingsKeys}

\* the page before root.render: the store as an earlier writer left it, the
\* component state not yet initialised (shown as the module constants)
Unmounted ==
  /\ stored \in AnyBlobs
  /\ storeOK \in BOOLEAN
  /\ settings = DEFAULT_SETTINGS
  /\ mode = Mode.Work
  /\ isRunning = FALSE
  /\ roundsCompleted = 0
  /\ secondsLeft = 0
  /\ timerTasks = 0
  /\ form = <<>>
  /\ pending = <<>>
  /\ lastOp = "boot"

\* the useState initialisers of App over the loaded settings
construct(loaded) ==
  [settings |-> loaded, mode |-> Mode.Work, isRunning |-> FALSE,
   roundsCompleted |-> 0, secondsLeft |-> initialSeconds(Mode.Work, loaded),
   timerTasks |-> 0]

\* root.render(App): the initialisers run loadSettings, then the save
\* effect of the first commit writes the loaded settings
Mount ==
  /\ lastOp = "boot"
  /\ \E new \in {construct(loadSettings(getItem))} :
        /\ CommitSession(new, "init")
        /\ stored' = saveSettings(new.settings)
  /\ UNCHANGED <<storeOK, form, pending>>

SpecLoad == Unmounted /\ [][Mount]_vars

(* --------------------------- settings form steps --------------------- *)

\* the Settings button: setOpenSettings(true) mounts SettingsModal, whose
\* form state starts as the current settings (useState(settings))
OpenSettings ==
  /\ form = <<>>
  /\ form' = <<settings>>
  /\ lastOp' = "open"
  /\ UNCHANGED <<settings, mode, isRunning, roundsCompleted, secondsLeft,
                 timerTasks, stored, storeOK, pending>>

\* onChange of a field of the open form: setField(key, val); one field is
\* edited per visit of the form
EditField ==
  /\ form # <<>>
  /\ form[1] = settings
  /\ \E key \in EditedKeys :
       \E val \in FieldValues(key) :
          form' = <<setField(form[1], key, val)>>
  /\ lastOp' = "edit"
  /\ UNCHANGED <<settings, mode, isRunning, roundsCompleted, secondsLeft,
                 timerTasks, stored, storeOK, pending>>

\* the Cancel button or a click on the backdrop
Cancel ==
  /\ form # <<>>
  /\ \E new \in {settle(State, onClose(State, form[1]))} :
        CommitSession(new, "cancel")
  /\ form' = <<>>
  /\ UNCHANGED <<stored, storeOK, pending>>

\* the Save button of the open form: onSave(local), then the save effect
SaveForm ==
  /\ form # <<>>
  /\ \E new \in {settle(State, onSave(State, form[1]))} :
        /\ CommitSession(new, "save")
        /\ stored' = saveSettings(new.settings)
  /\ form' = <<>>
  /\ UNCHANGED <<storeOK, pending>>

\* a Tick among the first MaxFormTicks of the countdown
FormTick ==
  /\ initialSeconds(mode, settings) - secondsLeft < MaxFormTicks
  /\ Tick

NextForm ==
  OpenSettings \/ EditField \/ Cancel \/ SaveForm \/ StartPause \/ FormTick

SpecForm == Init /\ [][NextForm]_vars

(* ------------------------ a store that can fail ---------------------- *)

\* localStorage starts or stops throwing (storage disabled, quota reached)
StoreFlips ==
  /\ storeOK' = ~storeOK
  /\ lastOp' = "storage"
  /\ UNCHANGED <<settings, mode, isRunning, roundsCompleted, secondsLeft,
                 timerTasks, stored, form, pending>>

NextStore == Save \/ StoreFlips

SpecStore == Init /\ [][NextStore]_vars

(* --------------------- unattended auto-start run --------------------- *)

\* sessions whose stored settings have autoStartNext set
InitAuto ==
  \E blob \in {b \in StoredBlobs : b.fields.autoStartNext} :
     Startup(blob, TRUE)

\* the click on Start that sets the timer running, the only user action
Start == ~isRunning /\ lastOp = "init" /\ StartPause

NextAuto == Start \/ Tick

\* setInterval delivers a callback every 1000 ms for as long as the
\* interval is set: a Tick that stays possible is eventually taken
SpecAuto == InitAuto /\ [][NextAuto]_vars /\ WF_vars(Tick)

(* --------------- timer callbacks and passive effects ----------------- *)

\* An update made in a click is rendered and its passive effects are run
\* before the click returns; an update made in a timer callback is rendered
\* later and its passive effects (the reset effect, the store of
\* savedCallback.current, the cleanup of the interval) run later still, so
\* that the interval can deliver a callback in between.

\* the render whose callback savedCallback.current holds
savedClosure == IF pending = <<>> THEN State ELSE pending[1]

\* the interval callback applied to the state st, with the onCompleteCycle
\* of the render c (its mode, roundsCompleted and settings)
tickFrom(st, c) ==
  IF st.secondsLeft <= 1
  THEN [st EXCEPT !.isRunning = onCompleteCycle(c).isRunning,
                  !.mode = onCompleteCycle(c).mode,
                  !.roundsCompleted =
                     IF c.mode = Mode.Work
                     THEN onCompleteCycle(c).roundsCompleted
                     ELSE st.roundsCompleted,
                  !.secondsLeft = 0]
  ELSE [st EXCEPT !.secondsLeft = st.secondsLeft - 1]

\* the state whose effects are left to run, once they have run
flushed == IF pending = <<>> THEN State ELSE settle(pending[1], State)

\* the interval delivers a callback: its update is rendered and committed,
\* the passive effects of that commit are left to run. Before it renders,
\* React runs the effects left by the commit before; the callback delivered
\* is still the one of the render savedClosure
TimerCallback ==
  /\ timerTasks > 0
  /\ ~(/\ secondsLeft <= 1
       /\ savedClosure.mode = Mode.Work
       /\ savedClosure.roundsCompleted >= MaxRounds)
  /\ \E new \in {IF pending = <<>> THEN tick(State)
                  ELSE settle(pending[1], tickFrom(State, pending[1]))} :
        CommitSession(new, IF secondsLeft <= 1 THEN "complete" ELSE "tick")
  /\ pending' = <<flushed>>
  /\ UNCHANGED <<stored, storeOK, form>>

\* the passive effects of the commits made since the render pending[1] run
FlushEffects ==
  /\ pending # <<>>
  /\ \E new \in {settle(pending[1], State)} : CommitSession(new, lastOp)
  /\ pending' = <<>>
  /\ UNCHANGED <<stored, storeOK, form>>

\* a click on Start/Pause: React runs the passive effects still left, then
\* renders the update and runs its effects
ClickStartPause ==
  /\ \E cur \in {flushed} :
        \E new \in {settle(cur, handleStartPause(cur))} :
           CommitSession(new, "toggle")
  /\ pending' = <<>>
  /\ UNCHANGED <<stored, storeOK, form>>

NextTeardown == ClickStartPause \/ TimerCallback \/ FlushEffects

SpecTeardown == Init /\ [][NextTeardown]_vars

(* ------------------------------ claims -------------------------------- *)

\* full duration of the current mode under the current settings
Full == initialSeconds(mode, settings)

Max(a, b) == IF a >= b THEN a ELSE b

\* C1: after a manual mode switch has settled the timer is Paused, the mode
\* is the target and secondsLeft is the full duration of the target, for
\* every state and every target.
C1_SwitchAlwaysResets ==
  /\ \A target \in Modes :
       LET r == settle(State, switchMode(State, target))
       IN r.mode = target /\ ~r.isRunning
  /\ lastOp = "switch" => (~isRunning /\ secondsLeft = Full)

\* C2: after a completing Tick has settled, secondsLeft is the full
\* duration of the new mode, also when it equals the completed mode's.
C2_CompletionResets == lastOp = "complete" => secondsLeft = Full

\* C3 as stated: after every Save, secondsLeft is the full duration of the
\* current mode under the new settings.
C3_SaveAlwaysResets == lastOp = "save" => secondsLeft = Full

\* C3 amended: a Save that changes the full duration of the current mode
\* sets secondsLeft to the new full duration; any other Save leaves
\* secondsLeft as it was.
C3_SaveResetsOnDurationChange ==
  [][lastOp' = "save" =>
       IF Full' # Full THEN secondsLeft' = Full'
       ELSE secondsLeft' = secondsLeft]_vars

C3_Witness ==
  /\ lastOp = "save"
  /\ isRunning
  /\ mode = Mode.Short
  /\ secondsLeft = Full
  /\ settings.shortBreakMinutes = 2

\* C4: a completed Work interval adds exactly 1 to roundsCompleted, a
\* completed break leaves it unchanged, and no other step increases it.
C4_RoundsAccounting ==
  [][/\ (lastOp' = "complete" /\ mode = Mode.Work)
          => roundsCompleted' = roundsCompleted + 1
     /\ (lastOp' = "complete" /\ mode # Mode.Work)
          => roundsCompleted' = roundsCompleted
     /\ roundsCompleted' > roundsCompleted
          => (lastOp' = "complete" /\ mode = Mode.Work)]_vars

C4_Witness ==
  lastOp = "complete" /\ mode = Mode.Work /\ roundsCompleted = MaxRounds

\* the example of the rule: roundsUntilLongBreak = 4 and roundsCompleted
\* going from 3 to 4 give LongBreak
FourthRound ==
  [State EXCEPT !.mode = Mode.Work, !.roundsCompleted = 3,
                !.settings.roundsUntilLongBreak = 4]

\* C5: a completed Work interval is followed by LongBreak exactly when the
\* incremented roundsCompleted is a multiple of roundsUntilLongBreak, and by
\* ShortBreak otherwise; a completed break is followed by Work.
C5_NextMode ==
  [][lastOp' = "complete" =>
       /\ IF mode = Mode.Work
          THEN mode' = (IF roundsCompleted' % settings.roundsUntilLongBreak = 0
                        THEN Mode.Long ELSE Mode.Short)
          ELSE mode' = Mode.Work
       /\ onCompleteCycle(FourthRound).mode = Mode.Long
       /\ onCompleteCycle(FourthRound).roundsCompleted = 4]_vars

C5_Witness ==
  /\ lastOp = "complete"
  /\ mode = Mode.Long
  /\ roundsCompleted = 2
  /\ settings.roundsUntilLongBreak = 2

\* C6 as stated: every Tick takes secondsLeft to max(0, secondsLeft - 1), so
\* that N Ticks from D*60 leave max(0, D*60 - N).
C6_TicksNeverRaise ==
  [][lastOp' \in {"tick", "complete"}
       => secondsLeft' = Max(0, secondsLeft - 1)]_vars

\* d consecutive Ticks from the Running state st0 with d seconds left: the
\* n-th Tick, for n < d, goes from d - n + 1 seconds to d - n and changes
\* nothing else, and the d-th Tick, taken at 1 second, completes the interval
CountsDown(st0, d) ==
  /\ \A n \in 1..(d - 1) :
       LET before == [st0 EXCEPT !.secondsLeft = d - n + 1]
       IN settle(before, tick(before)) = [st0 EXCEPT !.secondsLeft = d - n]
  /\ \E before \in {[st0 EXCEPT !.secondsLeft = 1]} :
       \E last \in {settle(before, tick(before))} :
         /\ last.mode # st0.mode \/ last.roundsCompleted # st0.roundsCompleted
         /\ last.isRunning = st0.settings.autoStartNext

\* C6 amended: N < D*60 consecutive Ticks from D*60 leave D*60 - N seconds,
\* each of them decrementing secondsLeft by exactly 1 and changing neither
\* mode, isRunning nor roundsCompleted; the (D*60)-th Tick completes the
\* interval, and secondsLeft is from then on that of the next interval.
C6_Countdown ==
  /\ (isRunning /\ secondsLeft > 1) =>
       LET r == settle(State, tick(State))
       IN /\ r.secondsLeft = secondsLeft - 1
          /\ r.mode = mode
          /\ r.isRunning
          /\ r.roundsCompleted = roundsCompleted
  /\ (isRunning /\ secondsLeft > 0 /\ secondsLeft % SecondsPerMinute = 0) =>
       CountsDown(State, secondsLeft)
  /\ lastOp = "tick" => (isRunning /\ secondsLeft < Full)

C6_Witness == lastOp = "tick" /\ secondsLeft = 1 /\ mode = Mode.Long

\* C7: after a completion has settled, isRunning is settings.autoStartNext.
C7_RunningAfterCompletion ==
  lastOp = "complete" =>
    /\ isRunning = settings.autoStartNext
    /\ timerTasks = (IF settings.autoStartNext THEN 1 ELSE 0)

C7_Witness ==
  lastOp = "complete" /\ isRunning /\ mode = Mode.Short /\ secondsLeft = Full

\* C8: Reset pauses the timer and restores the full duration of the current
\* mode; mode, roundsCompleted and settings are unchanged.
C8_Reset ==
  [][lastOp' = "reset" =>
       /\ ~isRunning'
       /\ secondsLeft' = Full
       /\ UNCHANGED <<mode, roundsCompleted, settings>>]_vars

C8_Witness ==
  /\ lastOp = "reset"
  /\ mode = Mode.Long
  /\ roundsCompleted = 1
  /\ secondsLeft = Full

\* C9: Clear Rounds sets roundsCompleted to 0 and changes neither mode,
\* isRunning, secondsLeft, settings nor the scheduled tick task.
C9_ClearRounds ==
  [][lastOp' = "clear" =>
       /\ roundsCompleted' = 0
       /\ UNCHANGED <<mode, isRunning, secondsLeft, settings, timerTasks>>]_vars

C9_Witness ==
  /\ lastOp = "clear"
  /\ isRunning
  /\ mode = Mode.Long
  /\ secondsLeft < Full
  /\ timerTasks = 1

\* C10: the Start/Pause toggle flips isRunning and changes neither mode,
\* secondsLeft nor roundsCompleted; toggling twice restores the state.
C10_Toggle ==
  /\ \E once \in {settle(State, handleStartPause(State))} :
       /\ once.isRunning = ~isRunning
       /\ once.mode = mode
       /\ once.secondsLeft = secondsLeft
       /\ once.roundsCompleted = roundsCompleted
       /\ settle(once, handleStartPause(once)) = State
  /\ lastOp = "toggle" => timerTasks = (IF isRunning THEN 1 ELSE 0)

C10_Witness ==
  /\ lastOp = "toggle"
  /\ ~isRunning
  /\ secondsLeft > 0
  /\ secondsLeft < Full
  /\ roundsCompleted = 1

\* C11: once App is constructed, over whatever item the store held, the
\* four numeric settings are integers >= 1.
C11_SettingsValid ==
  lastOp # "boot" =>
    \A k \in NumericKeys : settings[k] \in Int /\ settings[k] >= 1

\* C12: loadSettings always yields a settings value: exactly
\* DEFAULT_SETTINGS when the item is absent, the store unavailable or the
\* text unparsable, and for a record its stored fields with every missing
\* field taken from DEFAULT_SETTINGS.
C12_LoadNeverFails ==
  [][lastOp' = "init" =>
       /\ SettingsKeys \subseteq DOMAIN settings'
       /\ (~storeOK \/ stored.kind \in {"absent", "unparsable"})
            => settings' = DEFAULT_SETTINGS
       /\ (storeOK /\ stored.kind = "record")
            => \A k \in SettingsKeys :
                 settings'[k] = (IF k \in DOMAIN stored.fields
                                 THEN stored.fields[k]
                                 ELSE DEFAULT_SETTINGS[k])]_vars

C12_Witness ==
  /\ lastOp = "init"
  /\ storeOK
  /\ settings.workMinutes = MaxInput
  /\ settings.longBreakMinutes = DEFAULT_SETTINGS.longBreakMinutes
  /\ settings.autoStartNext
  /\ stored = stringify(settings)

\* C13: opening the form, editing a field and closing the form with Cancel
\* or a backdrop click change neither settings, secondsLeft nor the stored
\* item; settings change only in the step where Save is pressed.
C13_OnlySaveMutates ==
  [][/\ lastOp' \in {"open", "edit", "cancel"}
          => UNCHANGED <<settings, secondsLeft, stored>>
     /\ settings' # settings => lastOp' = "save"]_vars

C13_Witness ==
  /\ lastOp = "cancel"
  /\ isRunning
  /\ secondsLeft < Full
  /\ settings.workMinutes = MaxInput
  /\ settings.autoStartNext

\* C14: there is never more than one tick task, and once the effects have
\* settled there is exactly one when isRunning and none otherwise.
C14_OneTickTask ==
  /\ timerTasks \in {0, 1}
  /\ isRunning <=> timerTasks = 1

C14_Witness ==
  /\ lastOp = "switch"
  /\ ~isRunning
  /\ timerTasks = 0
  /\ secondsLeft < Full
  /\ roundsCompleted = MaxRounds

\* C15: once isRunning is false no Tick can be applied: the interval can
\* deliver no callback, whatever the order of the callback and of the
\* teardown of the interval.
C15_NoStaleTicks == ~isRunning => ~ENABLED TimerCallback

AtRoundsCap == mode = Mode.Work /\ roundsCompleted >= MaxRounds

\* C17: with autoStartNext set, valid settings and no user action, once the
\* timer is Running every interval eventually completes and the next one
\* starts Running in another mode; each Work completion is followed by
\* another (up to the cap on roundsCompleted), Work and break intervals
\* alternate, and a LongBreak is entered.
C17_AutoCycle ==
  /\ \A m \in Modes :
       (isRunning /\ mode = m /\ ~AtRoundsCap)
         ~> (lastOp = "complete" /\ isRunning /\ mode # m)
  /\ \A n \in 0..(MaxRounds - 1) :
       (isRunning /\ roundsCompleted = n) ~> (roundsCompleted = n + 1)
  /\ [][lastOp' = "complete" =>
         ((mode = Mode.Work) # (mode' = Mode.Work))]_vars
  /\ (isRunning /\ roundsCompleted = 0
         /\ settings.roundsUntilLongBreak <= MaxRounds)
       ~> (mode = Mode.Long /\ isRunning)

C17_Witness ==
  /\ lastOp = "complete"
  /\ isRunning
  /\ mode = Mode.Long
  /\ settings.roundsUntilLongBreak = MaxRounds
  /\ settings.longBreakMinutes # settings.workMinutes
  /\ secondsLeft = Full

\* C18: the Ticks between entering a mode (at startup, by a completion, by
\* a manual switch) and its natural completion are as many as the seconds
\* of its configured duration: the callback completes the interval when it
\* runs at 1 second or less and takes one second off otherwise, so from
\* secondsLeft it takes Max(1, secondsLeft) Ticks.
C18_FullLengthIntervals ==
  lastOp \in {"init", "complete", "switch"} => Max(1, secondsLeft) = Full

\* C19: once App is constructed, 0 <= secondsLeft <= full duration of the
\* current mode, and the progress value before clamping,
\* (1 - secondsLeft / total) * 100, is within [0, 100].
C19_CountdownBounds ==
  lastOp # "boot" =>
    /\ 0 <= secondsLeft
    /\ secondsLeft <= Full
    /\ LET t == total(State)
       IN /\ 0 <= (t - secondsLeft) * t
          /\ (t - secondsLeft) * t <= t * t

\* C20: a Save leaves mode, isRunning, roundsCompleted and the tick task
\* as they are; after a Save a Running timer is still Running with its one
\* tick task.
C20_SaveFrame ==
  [][lastOp' = "save" =>
       /\ UNCHANGED <<mode, isRunning, roundsCompleted, timerTasks>>
       /\ isRunning => (isRunning' /\ timerTasks' = 1)]_vars

C20_Witness ==
  /\ lastOp = "save"
  /\ isRunning
  /\ timerTasks = 1
  /\ mode = Mode.Short
  /\ roundsCompleted = 1
  /\ secondsLeft < Full
  /\ secondsLeft > 0

====
